---- MODULE Spec2Model ----
(***************************************************************************)
(* Model of the reporting-api package: the header annotator                *)
(* (setupReportingHeaders in src/setup-headers.ts) and the ingestion       *)
(* endpoint (reportingEndpoint, with the Report schema it validates        *)
(* against).                                                               *)
(*                                                                         *)
(* A response is a map from header names to slots.  A slot is absent, a    *)
(* single JavaScript value, or a reference to an array object on the heap  *)
(* (Node keeps the array object that was handed to res.setHeader, and      *)
(* res.getHeader hands the same object back).  JavaScript strings are TLA+ *)
(* strings and are handled character by character.                         *)
(***************************************************************************)
EXTENDS Integers, Sequences, FiniteSets, TLC

VARIABLES
    config,        \* the ReportingHeadersConfig given to setupReportingHeaders
    urlArg,        \* the reportingUrl argument given to setupReportingHeaders
    reportingUrl,  \* the reportingUrl captured by the returned middleware
    res,           \* the response: header name -> slot
    heap,          \* the array objects: reference -> sequence of values
    callerCalls,   \* number of res.setHeader calls made by the caller so far
    runs,          \* number of times the middleware ran on the response
    pre,           \* res and heap as they were when the middleware last started
    writes,        \* the header writes of the last middleware run, in order
    endpointConfig, \* the ReportingEndpointConfig given to reportingEndpoint
    req,           \* the request the endpoint handled last
    endpointRes,   \* the response of the endpoint to that request
    events,        \* what the handling of that request did with its reports, in order
    fault,         \* the exception that left the handler, "none" when it returned
    callerArray,   \* the array of header values the caller keeps, as the caller made it
    other,         \* a second response, of another request: header name -> slot
    otherRuns      \* number of times the middleware ran on the second response

annotatorVars == <<config, urlArg, reportingUrl, res, heap, callerCalls, runs, pre, writes>>

endpointVars == <<endpointConfig, req, endpointRes, events, fault>>

sharedVars == <<callerArray, other, otherRuns>>

vars == <<annotatorVars, endpointVars, sharedVars>>

(***************************************************************************)
(* Bounds of the model.                                                    *)
(***************************************************************************)
MaxCallerCalls == 2
MaxRuns == 2
MaxConfigCalls == 1
MaxBatch == 2

(***************************************************************************)
(* JavaScript values.                                                      *)
(***************************************************************************)
Str(s) == [type |-> "string", s |-> s, n |-> 0]
Num(n) == [type |-> "number", s |-> "", n |-> n]
Undefined == [type |-> "undefined", s |-> "", n |-> 0]
Null == [type |-> "null", s |-> "", n |-> 0]
Bool(b) == [type |-> "boolean", s |-> "", n |-> IF b THEN 1 ELSE 0]

\* JavaScript truthiness of a value
Truthy(v) ==
    CASE v.type = "string" -> v.s # ""
      [] v.type = "number" -> v.n # 0
      [] v.type = "boolean" -> v.n = 1
      [] v.type = "fraction" -> v.n # 0
      [] v.type \in {"object", "array", "regexp"} -> TRUE
      [] OTHER -> FALSE

\* String.prototype.includes
Includes(s, p) ==
    \E i \in 1..(Len(s) - Len(p) + 1) : SubSeq(s, i, i + Len(p) - 1) = p

Digit(d) == SubSeq("0123456789", d + 1, d + 1)

RECURSIVE NatToString(_)
NatToString(n) == IF n < 10 THEN Digit(n) ELSE NatToString(n \div 10) \o Digit(n % 10)

\* String(v) for the strings and non-negative integers of the model
JsString(v) == IF v.type = "number" THEN NatToString(v.n) ELSE v.s

\* encodeURIComponent on one character of the model's ASCII alphabet:
\* letters, digits and - _ . ! ~ * ' ( ) are kept, the rest is %XX
EncodeChar(c) ==
    CASE c = " " -> "%20"
      [] c = "\"" -> "%22"
      [] c = "#" -> "%23"
      [] c = "%" -> "%25"
      [] c = "&" -> "%26"
      [] c = "+" -> "%2B"
      [] c = "/" -> "%2F"
      [] c = ";" -> "%3B"
      [] c = "=" -> "%3D"
      [] c = "?" -> "%3F"
      [] OTHER -> c

RECURSIVE encodeURIComponent(_)
encodeURIComponent(s) ==
    IF s = "" THEN ""
    ELSE EncodeChar(SubSeq(s, 1, 1)) \o encodeURIComponent(SubSeq(s, 2, Len(s)))

\* a slip: the separator is always "?"
addQueryParam_alwaysQuestion(url, k, v) ==
    url \o "?" \o k \o "=" \o encodeURIComponent(v)

addQueryParam(url, k, v) ==
    LET sep == IF Includes(url, "?") THEN "&" ELSE "?"
    IN  url \o sep \o k \o "=" \o encodeURIComponent(v)

(***************************************************************************)
(* The monitored headers, in the order the middleware visits them.         *)
(***************************************************************************)
headers == <<
    "Content-Security-Policy",
    "Content-Security-Policy-Report-Only",
    "Permissions-Policy",
    "Permissions-Policy-Report-Only",
    "Cross-Origin-Opener-Policy",
    "Cross-Origin-Opener-Policy-Report-Only",
    "Cross-Origin-Embedder-Policy",
    "Cross-Origin-Embedder-Policy-Report-Only" >>

Header == {headers[i] : i \in 1..Len(headers)}

HeaderNames == Header \cup {"Reporting-Endpoints", "Report-To", "NEL"}

\* a slip: only report-to counts as an existing reporter
addReporterToHeader_onlyReportTo(header, value, reportingGroup, reportingUri) ==
    IF \/ value.type # "string"
       \/ Includes(value.s, "report-to")
    THEN Null
    ELSE CASE header \in {"Content-Security-Policy",
                          "Content-Security-Policy-Report-Only"} ->
                Str(value.s
                    \o ";report-uri " \o addQueryParam(reportingUri, "src", "report-uri")
                    \o ";report-to " \o reportingGroup)
           [] header \in {"Permissions-Policy",
                          "Permissions-Policy-Report-Only"} ->
                Str(value.s \o ";report-to=" \o reportingGroup)
           [] OTHER ->
                Str(value.s \o ";report-to=\"" \o reportingGroup \o "\"")

\* a slip: the group is not quoted in the cross-origin headers
addReporterToHeader_unquoted(header, value, reportingGroup, reportingUri) ==
    IF \/ value.type # "string"
       \/ Includes(value.s, "report-to")
       \/ Includes(value.s, "report-uri ")
    THEN Null
    ELSE CASE header \in {"Content-Security-Policy",
                          "Content-Security-Policy-Report-Only"} ->
                Str(value.s
                    \o ";report-uri " \o addQueryParam(reportingUri, "src", "report-uri")
                    \o ";report-to " \o reportingGroup)
           [] OTHER ->
                Str(value.s \o ";report-to=" \o reportingGroup)

\* Adds a reporter to a header: the new value, or Null
addReporterToHeader(header, value, reportingGroup, reportingUri) ==
    IF \/ value.type # "string"
       \/ Includes(value.s, "report-to")
       \/ Includes(value.s, "report-uri ")
    THEN Null
    ELSE CASE header \in {"Content-Security-Policy",
                          "Content-Security-Policy-Report-Only"} ->
                Str(value.s
                    \o ";report-uri " \o addQueryParam(reportingUri, "src", "report-uri")
                    \o ";report-to " \o reportingGroup)
           [] header \in {"Permissions-Policy",
                          "Permissions-Policy-Report-Only"} ->
                Str(value.s \o ";report-to=" \o reportingGroup)
           [] header \in {"Cross-Origin-Embedder-Policy",
                          "Cross-Origin-Embedder-Policy-Report-Only",
                          "Cross-Origin-Opener-Policy",
                          "Cross-Origin-Opener-Policy-Report-Only"} ->
                Str(value.s \o ";report-to=\"" \o reportingGroup \o "\"")
           [] OTHER -> Null

(***************************************************************************)
(* JSON.stringify on the objects the middleware builds.                    *)
(***************************************************************************)
Frac(t) == [type |-> "fraction", s |-> "", n |-> t]  \* the number t/10
Obj(props) == [type |-> "object", props |-> props]   \* props: <<key, value>> pairs in insertion order
Arr(items) == [type |-> "array", items |-> items]

RECURSIVE JsonEscape(_)
JsonEscape(s) ==
    IF s = "" THEN ""
    ELSE LET c == SubSeq(s, 1, 1)
         IN  (IF c = "\"" THEN "\\\"" ELSE IF c = "\\" THEN "\\\\" ELSE c)
             \o JsonEscape(SubSeq(s, 2, Len(s)))

RECURSIVE JoinComma(_)
JoinComma(parts) ==
    IF parts = <<>> THEN ""
    ELSE IF Len(parts) = 1 THEN parts[1]
    ELSE parts[1] \o "," \o JoinComma(Tail(parts))

RECURSIVE JSONstringify(_)
JSONstringify(v) ==
    CASE v.type = "string" -> "\"" \o JsonEscape(v.s) \o "\""
      [] v.type = "number" -> NatToString(v.n)
      [] v.type = "fraction" ->
            IF v.n = 0 THEN "0" ELSE IF v.n = 10 THEN "1" ELSE "0." \o Digit(v.n)
      [] v.type = "boolean" -> IF v.n = 1 THEN "true" ELSE "false"
      [] v.type = "array" ->
            "[" \o JoinComma([i \in 1..Len(v.items) |-> JSONstringify(v.items[i])]) \o "]"
      [] v.type = "object" ->
            \* properties whose value is undefined are left out
            LET kept == SelectSeq(v.props, LAMBDA p : p[2].type # "undefined")
            IN  "{" \o JoinComma([i \in 1..Len(kept) |->
                        "\"" \o JsonEscape(kept[i][1]) \o "\":" \o JSONstringify(kept[i][2])])
                \o "}"
      [] OTHER -> "null"

(***************************************************************************)
(* The response object of the host (Node's OutgoingMessage, Express's      *)
(* res.append).                                                            *)
(***************************************************************************)
AbsentSlot == [kind |-> "absent", val |-> Undefined, ref |-> 0]
ScalarSlot(v) == [kind |-> "scalar", val |-> v, ref |-> 0]
ArraySlot(r) == [kind |-> "array", val |-> Undefined, ref |-> r]

\* truthiness of what res.getHeader returns (an array object is truthy)
SlotTruthy(slot) == slot.kind = "array" \/ (slot.kind = "scalar" /\ Truthy(slot.val))

\* the values of a header as an ordered list (a single value is a one-element list)
ValueList(r, hp, h) ==
    CASE r[h].kind = "absent" -> <<>>
      [] r[h].kind = "scalar" -> <<r[h].val>>
      [] OTHER -> hp[r[h].ref]

\* res.setHeader(field, slot): the response keeps the value (or array object) it is given
ResSetHeader(st, field, slot) ==
    [st EXCEPT !.res = [@ EXCEPT ![field] = slot],
               !.writes = Append(@, [op |-> "setHeader", field |-> field])]

\* res.append(field, val) of Express, val a string: a header that has a truthy
\* value becomes a new array of the previous values and val, all as strings
ResAppend(st, field, val) ==
    LET prev == st.res[field]
        prevList == ValueList(st.res, st.heap, field)
        value == [i \in 1..(Len(prevList) + 1) |->
                    IF i <= Len(prevList) THEN Str(JsString(prevList[i])) ELSE Str(val)]
    IN  IF SlotTruthy(prev)
        THEN [st EXCEPT !.heap = Append(@, value),
                        !.res = [@ EXCEPT ![field] = ArraySlot(Len(st.heap) + 1)],
                        !.writes = Append(@, [op |-> "append", field |-> field])]
        ELSE [st EXCEPT !.res = [@ EXCEPT ![field] = ScalarSlot(Str(val))],
                        !.writes = Append(@, [op |-> "append", field |-> field])]

(***************************************************************************)
(* setupReportingHeaders                                                   *)
(***************************************************************************)
\* the value of property k of a configuration object, Undefined when it has none
Prop(obj, k) ==
    LET found == SelectSeq(obj.props, LAMBDA p : p[1] = k)
    IN  IF found = <<>> THEN Undefined ELSE found[1][2]

\* a slip: the version is appended as it is, not encoded
VersionedUrl_unencoded(url, cfg) ==
    IF Truthy(cfg.version)
    THEN url \o (IF Includes(url, "?") THEN "&" ELSE "?")
             \o "version=" \o JsString(cfg.version)
    ELSE url

\* the reportingUrl variable after the version has been included in it
VersionedUrl(url, cfg) ==
    IF Truthy(cfg.version)
    THEN addQueryParam(url, "version", JsString(cfg.version))
    ELSE url

\* a slip: a configured reportingGroup wins over enableDefaultReporters
ReportTo_groupFirst(cfg) ==
    IF Truthy(cfg.reportingGroup) THEN cfg.reportingGroup.s
    ELSE IF Truthy(cfg.enableDefaultReporters) THEN "default"
    ELSE "reporter"

\* const reportTo
ReportTo(cfg) ==
    IF Truthy(cfg.enableDefaultReporters) THEN "default"
    ELSE IF Truthy(cfg.reportingGroup) THEN cfg.reportingGroup.s
    ELSE "reporter"

\* a slip: the flag follows the last value only (setHeader = !!newHeader)
RECURSIVE ForValues_flagFollowsLast(_, _, _, _, _, _)
ForValues_flagFollowsLast(st, ref, i, headerKey, reportTo, url) ==
    IF i > Len(st.heap[ref]) THEN st
    ELSE LET value == st.heap[ref][i]
             newHeader == IF value.type # "string" THEN Null
                          ELSE addReporterToHeader(headerKey, value, reportTo, url)
             st1 == IF Truthy(newHeader)
                    THEN [st EXCEPT !.heap = [@ EXCEPT ![ref] = [@ EXCEPT ![i] = newHeader]],
                                    !.setHeader = TRUE]
                    ELSE [st EXCEPT !.setHeader = FALSE]
         IN  ForValues_flagFollowsLast(st1, ref, i + 1, headerKey, reportTo, url)

\* a slip: the new value is stored in values[0]
RECURSIVE ForValues_firstIndex(_, _, _, _, _, _)
ForValues_firstIndex(st, ref, i, headerKey, reportTo, url) ==
    IF i > Len(st.heap[ref]) THEN st
    ELSE LET value == st.heap[ref][i]
             newHeader == IF value.type # "string" THEN Null
                          ELSE addReporterToHeader(headerKey, value, reportTo, url)
             st1 == IF Truthy(newHeader)
                    THEN [st EXCEPT !.heap = [@ EXCEPT ![ref] = [@ EXCEPT ![1] = newHeader]],
                                    !.setHeader = TRUE]
                    ELSE st
         IN  ForValues_firstIndex(st1, ref, i + 1, headerKey, reportTo, url)

\* a slip: only the last value is given the reporter (as in the first revision,
\* values[values.length - 1] += append)
RECURSIVE ForValues_onlyLast(_, _, _, _, _, _)
ForValues_onlyLast(st, ref, i, headerKey, reportTo, url) ==
    IF i > Len(st.heap[ref]) THEN st
    ELSE LET value == st.heap[ref][i]
             newHeader == IF value.type # "string" \/ i < Len(st.heap[ref]) THEN Null
                          ELSE addReporterToHeader(headerKey, value, reportTo, url)
             st1 == IF Truthy(newHeader)
                    THEN [st EXCEPT !.heap = [@ EXCEPT ![ref] = [@ EXCEPT ![i] = newHeader]],
                                    !.setHeader = TRUE]
                    ELSE st
         IN  ForValues_onlyLast(st1, ref, i + 1, headerKey, reportTo, url)

\* the inner loop over values[i], from index i on: the array object values is
\* updated in place
RECURSIVE ForValues(_, _, _, _, _, _)
ForValues(st, ref, i, headerKey, reportTo, url) ==
    IF i > Len(st.heap[ref]) THEN st
    ELSE LET value == st.heap[ref][i]
             newHeader == IF value.type # "string" THEN Null
                          ELSE addReporterToHeader(headerKey, value, reportTo, url)
             st1 == IF Truthy(newHeader)
                    THEN [st EXCEPT !.heap = [@ EXCEPT ![ref] = [@ EXCEPT ![i] = newHeader]],
                                    !.setHeader = TRUE]
                    ELSE st
         IN  ForValues(st1, ref, i + 1, headerKey, reportTo, url)

\* the loop body without the "if (!headers) continue" (as in the earlier revision)
ForHeaderKey_noSkip(st, headerKey, reportTo, url) ==
    LET slot == st.res[headerKey]
        st1 == IF slot.kind = "array" THEN st
               ELSE [st EXCEPT !.heap = Append(@, <<slot.val>>)]
        ref == IF slot.kind = "array" THEN slot.ref ELSE Len(st.heap) + 1
        st2 == ForValues(st1, ref, 1, headerKey, reportTo, url)
    IN  ResSetHeader(st2, headerKey, ArraySlot(ref))

\* the body of the loop over the monitored headers, for one headerKey
ForHeaderKey(st, headerKey, reportTo, url) ==
    LET slot == st.res[headerKey]
    IN  IF ~SlotTruthy(slot) THEN st
        ELSE LET \* const values = Array.isArray(headers) ? headers : [headers]
                 st1 == IF slot.kind = "array" THEN st
                        ELSE [st EXCEPT !.heap = Append(@, <<slot.val>>)]
                 ref == IF slot.kind = "array" THEN slot.ref ELSE Len(st.heap) + 1
                 st2 == ForValues(st1, ref, 1, headerKey, reportTo, url)
             IN  ResSetHeader(st2, headerKey, ArraySlot(ref))

RECURSIVE ForHeaders(_, _, _, _)
ForHeaders(st, k, reportTo, url) ==
    IF k > Len(headers) THEN st
    ELSE ForHeaders(ForHeaderKey(st, headers[k], reportTo, url), k + 1, reportTo, url)

ReportToJson(reportTo, url) ==
    JSONstringify(Obj(<< <<"group", Str(reportTo)>>,
                         <<"max_age", Num(60 * 60 * 24)>>,
                         <<"endpoints", Arr(<< Obj(<< <<"url", Str(url)>> >>) >>)>> >>))

\* a slip: the fields of the option object are not copied
NelJson_noCopy(reportTo, option) ==
    JSONstringify(Obj(<< <<"report_to", Str(reportTo)>>, <<"max_age", Num(60 * 60 * 24)>> >>))

NelJson(reportTo, option) ==
    LET nel == << <<"report_to", Str(reportTo)>>, <<"max_age", Num(60 * 60 * 24)>> >>
    IN  JSONstringify(Obj(
            IF option.type = "object"
            THEN nel \o << <<"failure_fraction", Prop(option, "failure_fraction")>>,
                           <<"success_fraction", Prop(option, "success_fraction")>>,
                           <<"include_subdomains", Prop(option, "include_subdomains")>> >>
            ELSE nel))

\* a slip: the check for an existing Reporting-Endpoints header is missing
AlreadySet_never(r) == FALSE

\* if (res.getHeader('Reporting-Endpoints'))
AlreadySet(r) == SlotTruthy(r["Reporting-Endpoints"])

\* the value appended to Reporting-Endpoints
EndpointsValue(reportTo, url) == reportTo \o "=\"" \o url \o "\""

\* the middleware returned by setupReportingHeaders, run on response r with heap hp:
\* the response, the heap and the header writes it leaves
Middleware(r, hp, cfg, url) ==
    LET st0 == [res |-> r, heap |-> hp, setHeader |-> FALSE, writes |-> <<>>]
    IN  IF AlreadySet(r) THEN st0
        ELSE LET reportTo == ReportTo(cfg)
                 st1 == ForHeaders(st0, 1, reportTo, url)
                 st2 == IF st1.setHeader
                        THEN ResAppend(st1, "Reporting-Endpoints",
                                       EndpointsValue(reportTo, url))
                        ELSE st1
             IN  IF Truthy(cfg.enableNetworkErrorLogging)
                 THEN ResSetHeader(
                          ResAppend(st2, "Report-To", ReportToJson(reportTo, url)),
                          "NEL",
                          ScalarSlot(Str(NelJson(reportTo, cfg.enableNetworkErrorLogging))))
                 ELSE st2

(***************************************************************************)
(* The Report schema (zod) of the ingestion endpoint.                      *)
(***************************************************************************)
\* value[k] of JavaScript for a value that is neither null nor undefined:
\* the property of an object, undefined for a value without that property
Get(v, k) == IF v.type = "object" THEN Prop(v, k) ELSE Undefined

\* k in value, for an object
HasKey(k, v) == \E i \in 1..Len(v.props) : v.props[i][1] = k

\* a || b
Or(a, b) == IF Truthy(a) THEN a ELSE b

\* typeof v === 'object'
TypeofObject(v) == v.type \in {"object", "array", "null", "regexp"}

\* String.prototype.startsWith
startsWith(s, t) == Len(s) >= Len(t) /\ SubSeq(s, 1, Len(t)) = t

\* a number as a count of tenths, to compare numbers with one decimal
Tenths(v) == IF v.type = "fraction" THEN v.n ELSE 10 * v.n

\* one key of a z.object: z.string(), z.number() or z.enum(values), optional or not
zString(k) == [key |-> k, kind |-> "string", optional |-> FALSE, values |-> {}]
zNumber(k) == [key |-> k, kind |-> "number", optional |-> FALSE, values |-> {}]
zEnum(k, values) == [key |-> k, kind |-> "enum", optional |-> FALSE, values |-> values]
zOptional(f) == [f EXCEPT !.optional = TRUE]

ContentSecurityPolicyReport ==
    [passthrough |-> TRUE,
     shape |-> << zString("blockedURL"), zOptional(zNumber("columnNumber")),
                  zEnum("disposition", {"enforce", "report"}), zString("documentURL"),
                  zString("effectiveDirective"), zOptional(zNumber("lineNumber")),
                  zString("originalPolicy"), zString("referrer"),
                  zOptional(zString("sample")), zOptional(zString("sourceFile")),
                  zOptional(zNumber("statusCode")) >>]

CrossOriginOpenerPolicyReport ==
    [passthrough |-> TRUE,
     shape |-> << zEnum("disposition", {"reporting", "enforce"}),
                  zEnum("effectivePolicy", {"unsafe-none", "same-origin",
                                            "same-origin-allow-popups",
                                            "same-origin-plus-coep"}),
                  zEnum("type", {"navigate-to-document", "navigate-from-document",
                                 "navigation-from-response",
                                 "access-to-coop-page-from-opener",
                                 "access-from-coop-page-to-opener",
                                 "access-from-coop-page-to-other",
                                 "access-from-coop-page-to-openee",
                                 "access-to-coop-page-from-openee",
                                 "access-to-coop-page-from-other"}),
                  zOptional(zNumber("columnNumber")), zOptional(zString("initialPopupURL")),
                  zOptional(zNumber("lineNumber")), zOptional(zString("openeeURL")),
                  zString("property"), zOptional(zString("sourceFile")) >>]

CrossOriginEmbedderPolicyReport ==
    [passthrough |-> TRUE,
     shape |-> << zEnum("disposition", {"reporting", "enforce"}),
                  zOptional(zString("blockedURL")), zString("type"),
                  zOptional(zString("destination")) >>]

NetworkErrorLogging ==
    [passthrough |-> TRUE,
     shape |-> << zNumber("elapsed_time"), zString("method"), zString("phase"),
                  zString("protocol"), zString("referrer"), zNumber("sampling_fraction"),
                  zString("server_ip"), zNumber("status_code"), zString("type") >>]

PermissionsPolicyViolation ==
    [passthrough |-> TRUE,
     shape |-> << zString("message"), zEnum("disposition", {"report", "enforce"}),
                  zString("policyId"), zOptional(zNumber("columnNumber")),
                  zOptional(zNumber("lineNumber")), zString("sourceFile") >>]

InterventionReport ==
    [passthrough |-> FALSE,
     shape |-> << zString("id"), zString("message"), zOptional(zNumber("columnNumber")),
                  zOptional(zNumber("lineNumber")), zOptional(zString("sourceFile")) >>]

CrashReport ==
    [passthrough |-> FALSE,
     shape |-> << zOptional(zString("reason")) >>]

DeprecationReport ==
    [passthrough |-> FALSE,
     shape |-> << zString("id"), zString("message"), zOptional(zNumber("columnNumber")),
                  zOptional(zNumber("lineNumber")), zOptional(zString("sourceFile")) >>]

\* the options of the discriminated union: the literal of type, the schema of body
ReportTypes ==
    {"csp-violation", "coop", "coep", "deprecation", "crash", "intervention",
     "network-error", "permissions-policy-violation"}

BodySchema(type) ==
    CASE type = "csp-violation" -> ContentSecurityPolicyReport
      [] type = "coop" -> CrossOriginOpenerPolicyReport
      [] type = "coep" -> CrossOriginEmbedderPolicyReport
      [] type = "deprecation" -> DeprecationReport
      [] type = "crash" -> CrashReport
      [] type = "intervention" -> InterventionReport
      [] type = "network-error" -> NetworkErrorLogging
      [] type = "permissions-policy-violation" -> PermissionsPolicyViolation

\* the keys every report has besides type and body
ReportShape ==
    << zString("url"), zNumber("age"), zString("user_agent"),
       zOptional(zString("version")),
       zEnum("report_format", {"report-uri", "report-to", "report-to-safari"}) >>

\* value v is accepted for key f of a z.object
FieldOk(v, f) ==
    IF v.type = "undefined" THEN f.optional
    ELSE CASE f.kind = "string" -> v.type = "string"
           [] f.kind = "number" -> v.type \in {"number", "fraction"}
           [] f.kind = "enum" -> v.type = "string" /\ v.s \in f.values

\* the object v is accepted by the z.object of the given shape
ShapeOk(v, shape) ==
    /\ v.type = "object"
    /\ \A i \in 1..Len(shape) : FieldOk(Get(v, shape[i].key), shape[i])

\* what the z.object gives for an accepted object: every property when it
\* passes unknown keys through, the properties of its shape otherwise
Parsed(v, schema) ==
    IF schema.passthrough THEN v
    ELSE Obj(SelectSeq(v.props,
                       LAMBDA p : \E i \in 1..Len(schema.shape) : schema.shape[i].key = p[1]))

\* the data of a result that has none
NoData ==
    [type |-> Undefined, body |-> Undefined, url |-> Undefined, age |-> Undefined,
     user_agent |-> Undefined, version |-> Undefined, report_format |-> Undefined]

\* Report.safeParse(input), input an object with the keys of NoData
safeParse(input) ==
    IF /\ input.type.type = "string"
       /\ input.type.s \in ReportTypes
       /\ ShapeOk(input.body, BodySchema(input.type.s).shape)
       /\ \A i \in 1..Len(ReportShape) : FieldOk(input[ReportShape[i].key], ReportShape[i])
    THEN [success |-> TRUE,
          data |-> [input EXCEPT !.body = Parsed(input.body, BodySchema(input.type.s))]]
    ELSE [success |-> FALSE, data |-> NoData]

(***************************************************************************)
(* reportingEndpoint: the handler made by createReportingEndpoint.  The    *)
(* state st of a handling holds the status sent (0: none yet), the headers *)
(* set on the response, the events so far and the exception thrown.        *)
(***************************************************************************)
\* a regular expression without flags that matches a text holding prefix
\* and, after it, ending with suffix: /prefix(.*)suffix$/
RegExp(prefix, suffix) == [type |-> "regexp", prefix |-> prefix, suffix |-> suffix]

\* RegExp.prototype.test
RegExpTest(re, s) ==
    \E i \in 1..(Len(s) - Len(re.prefix) - Len(re.suffix) + 1) :
        /\ SubSeq(s, i, i + Len(re.prefix) - 1) = re.prefix
        /\ SubSeq(s, Len(s) - Len(re.suffix) + 1, Len(s)) = re.suffix

\* a slip: a regular expression is never matched
RECURSIVE isOriginAllowed_noRegExp(_, _)
isOriginAllowed_noRegExp(origin, allowedOrigin) ==
    CASE allowedOrigin.type = "array" ->
            \E i \in 1..Len(allowedOrigin.items) :
                isOriginAllowed_noRegExp(origin, allowedOrigin.items[i])
      [] allowedOrigin.type = "string" -> allowedOrigin.s = origin
      [] OTHER -> FALSE

RECURSIVE isOriginAllowed(_, _)
isOriginAllowed(origin, allowedOrigin) ==
    CASE allowedOrigin.type = "array" ->
            \E i \in 1..Len(allowedOrigin.items) :
                isOriginAllowed(origin, allowedOrigin.items[i])
      [] allowedOrigin.type = "regexp" -> RegExpTest(allowedOrigin, origin)
      [] allowedOrigin.type = "string" -> allowedOrigin.s = origin
      [] OTHER -> FALSE

\* a slip: a report as old as maxAge is dropped too
filterReport_ageInclusive(report, cfg) ==
    IF /\ Truthy(cfg.ignoreBrowserExtensions)
       /\ HasKey("sourceFile", report.body)
       /\ Get(report.body, "sourceFile").type = "string"
       /\ \/ startsWith(Get(report.body, "sourceFile").s, "chrome-extension")
          \/ startsWith(Get(report.body, "sourceFile").s, "moz-extension")
          \/ startsWith(Get(report.body, "sourceFile").s, "safari-web-extension")
    THEN FALSE
    ELSE IF Truthy(cfg.maxAge) /\ Tenths(report.age) >= Tenths(cfg.maxAge) * 1000
    THEN FALSE
    ELSE TRUE

\* TRUE when the report is kept
filterReport(report, cfg) ==
    IF /\ Truthy(cfg.ignoreBrowserExtensions)
       /\ HasKey("sourceFile", report.body)
       /\ Get(report.body, "sourceFile").type = "string"
       /\ \/ startsWith(Get(report.body, "sourceFile").s, "chrome-extension")
          \/ startsWith(Get(report.body, "sourceFile").s, "moz-extension")
          \/ startsWith(Get(report.body, "sourceFile").s, "safari-web-extension")
    THEN FALSE
    ELSE IF Truthy(cfg.maxAge) /\ Tenths(report.age) > Tenths(cfg.maxAge) * 1000
    THEN FALSE
    ELSE TRUE

\* the headers the handler sets
EndpointHeader ==
    {"Allow", "Access-Control-Allow-Origin", "Vary", "Access-Control-Allow-Headers",
     "Access-Control-Allow-Methods", "Access-Control-Max-Age"}

\* the response before the handler has touched it
NoResponse == [status |-> 0, headers |-> [h \in EndpointHeader |-> Undefined]]

setHeader(st, name, value) == [st EXCEPT !.headers = [@ EXCEPT ![name] = Str(value)]]

sendStatus(st, code) == [st EXCEPT !.status = code]

\* an exception of the given name leaves the handler
Throw(st, name) == [st EXCEPT !.fault = name]

\* one thing the handling did with a report: a call of onReport or of
\* onValidationError, or a line of the log (filtered, parse error); index is
\* the place of the report in the array body, 0 for a body of one report
Event(kind, index, report, raw) ==
    [kind |-> kind, index |-> index, report |-> report, raw |-> raw]

\* a call of a callback of the configuration: it returns, or it throws
Call(st, event, outcome) ==
    LET st1 == [st EXCEPT !.events = Append(@, event)]
    IN  IF outcome = "throws" THEN Throw(st1, "callback") ELSE st1

handleReport(st, result, raw, index, cfg) ==
    IF result.success
    THEN IF filterReport(result.data, cfg)
         THEN Call(st, Event("onReport", index, result.data, raw), cfg.onReport)
         ELSE [st EXCEPT !.events = Append(@, Event("filtered", index, result.data, raw))]
    ELSE IF cfg.onValidationError # "none"
         THEN Call(st, Event("onValidationError", index, NoData, raw), cfg.onValidationError)
         ELSE [st EXCEPT !.events = Append(@, Event("parse error", index, NoData, raw))]

\* a slip: 405 without the Allow header (as in the earlier revision)
MethodNotAllowed_noAllow(st) == sendStatus(st, 405)

\* the answer to a method that is neither POST nor OPTIONS
MethodNotAllowed(st) == sendStatus(setHeader(st, "Allow", "POST, OPTIONS"), 405)

\* a slip: a POST whose Origin is not allowed is answered 403
Cors_rejecting(st, cfg, rq) ==
    IF ~Truthy(cfg.allowedOrigins) THEN st
    ELSE LET originHeader == rq.origin
             allowed == \/ cfg.allowedOrigins = Str("*")
                        \/ /\ Truthy(originHeader)
                           /\ isOriginAllowed(originHeader.s, cfg.allowedOrigins)
             st1 == IF cfg.allowedOrigins = Str("*")
                    THEN setHeader(st, "Access-Control-Allow-Origin", "*")
                    ELSE IF allowed
                    THEN setHeader(setHeader(st, "Access-Control-Allow-Origin",
                                             originHeader.s),
                                   "Vary", "Origin")
                    ELSE st
         IN  IF rq.method = "OPTIONS"
             THEN sendStatus(
                      setHeader(
                          setHeader(
                              setHeader(st1, "Access-Control-Allow-Headers", "Content-Type"),
                              "Access-Control-Allow-Methods", "POST"),
                          "Access-Control-Max-Age", "7200"),
                      200)
             ELSE IF ~allowed THEN sendStatus(st1, 403)
             ELSE st1

\* the CORS headers of a POST or OPTIONS request, and the answer to OPTIONS
Cors(st, cfg, rq) ==
    IF ~Truthy(cfg.allowedOrigins) THEN st
    ELSE LET originHeader == rq.origin
             st1 == IF cfg.allowedOrigins = Str("*")
                    THEN setHeader(st, "Access-Control-Allow-Origin", "*")
                    ELSE IF Truthy(originHeader)
                            /\ isOriginAllowed(originHeader.s, cfg.allowedOrigins)
                    THEN setHeader(setHeader(st, "Access-Control-Allow-Origin",
                                             originHeader.s),
                                   "Vary", "Origin")
                    ELSE st
         IN  IF rq.method = "OPTIONS"
             THEN sendStatus(
                      setHeader(
                          setHeader(
                              setHeader(st1, "Access-Control-Allow-Headers", "Content-Type"),
                              "Access-Control-Allow-Methods", "POST"),
                          "Access-Control-Max-Age", "7200"),
                      200)
             ELSE st1

\* const version
Version(rq) == IF rq.query.version.type = "string" THEN rq.query.version ELSE Undefined

\* a slip: violated-directive is preferred to effective-directive
LegacyReport_violatedFirst(st, cfg, rq) ==
    IF rq.body.type \in {"undefined", "null"} THEN Throw(st, "TypeError")
    ELSE LET body == Get(rq.body, "csp-report")
         IN  IF ~Truthy(body) THEN sendStatus(st, 400)
             ELSE LET v2body ==
                          Obj(<< <<"blockedURL", Get(body, "blocked-uri")>>,
                                 <<"columnNumber", Get(body, "column-number")>>,
                                 <<"disposition",
                                   Or(Get(body, "disposition"), rq.query.disposition)>>,
                                 <<"documentURL", Get(body, "document-uri")>>,
                                 <<"effectiveDirective",
                                   Or(Get(body, "violated-directive"),
                                      Get(body, "effective-directive"))>>,
                                 <<"lineNumber", Get(body, "line-number")>>,
                                 <<"originalPolicy", Get(body, "original-policy")>>,
                                 <<"referrer", Get(body, "referrer")>>,
                                 <<"sample", Get(body, "script-sample")>>,
                                 <<"sourceFile", Get(body, "source-file")>>,
                                 <<"statusCode", Get(body, "status-code")>> >>)
                      result ==
                          safeParse([body |-> v2body,
                                     type |-> Str("csp-violation"),
                                     url |-> Get(body, "document-uri"),
                                     age |-> Num(0),
                                     user_agent |-> Or(rq.userAgent, Str("")),
                                     report_format |-> Str("report-uri"),
                                     version |-> Version(rq)])
                      st1 == handleReport(st, result, rq.body, 0, cfg)
                  IN  IF st1.fault # "none" THEN st1 ELSE sendStatus(st1, 200)

\* the application/csp-report branch
LegacyReport(st, cfg, rq) ==
    IF rq.body.type \in {"undefined", "null"} THEN Throw(st, "TypeError")
    ELSE LET body == Get(rq.body, "csp-report")
         IN  IF ~Truthy(body) THEN sendStatus(st, 400)
             ELSE LET v2body ==
                          Obj(<< <<"blockedURL", Get(body, "blocked-uri")>>,
                                 <<"columnNumber", Get(body, "column-number")>>,
                                 <<"disposition",
                                   Or(Get(body, "disposition"), rq.query.disposition)>>,
                                 <<"documentURL", Get(body, "document-uri")>>,
                                 <<"effectiveDirective",
                                   Or(Get(body, "effective-directive"),
                                      Get(body, "violated-directive"))>>,
                                 <<"lineNumber", Get(body, "line-number")>>,
                                 <<"originalPolicy", Get(body, "original-policy")>>,
                                 <<"referrer", Get(body, "referrer")>>,
                                 <<"sample", Get(body, "script-sample")>>,
                                 <<"sourceFile", Get(body, "source-file")>>,
                                 <<"statusCode", Get(body, "status-code")>> >>)
                      result ==
                          safeParse([body |-> v2body,
                                     type |-> Str("csp-violation"),
                                     url |-> Get(body, "document-uri"),
                                     age |-> Num(0),
                                     user_agent |-> Or(rq.userAgent, Str("")),
                                     report_format |-> Str("report-uri"),
                                     version |-> Version(rq)])
                      st1 == handleReport(st, result, rq.body, 0, cfg)
                  IN  IF st1.fault # "none" THEN st1 ELSE sendStatus(st1, 200)

\* a slip: the age the payload states is taken
SingleReport_payloadAge(st, cfg, rq) ==
    LET result ==
            safeParse([body |-> Get(rq.body, "body"),
                       type |-> Get(rq.body, "type"),
                       url |-> Get(rq.body, "url"),
                       age |-> Get(rq.body, "age"),
                       user_agent |-> Or(rq.userAgent, Str("")),
                       report_format |-> Str("report-to-safari"),
                       version |-> Version(rq)])
        st1 == handleReport(st, result, rq.body, 0, cfg)
    IN  IF st1.fault # "none" THEN st1 ELSE sendStatus(st1, 200)

\* the branch of a body of one report (Safari)
SingleReport(st, cfg, rq) ==
    LET result ==
            safeParse([body |-> Get(rq.body, "body"),
                       type |-> Get(rq.body, "type"),
                       url |-> Get(rq.body, "url"),
                       age |-> Num(0),
                       user_agent |-> Or(rq.userAgent, Str("")),
                       report_format |-> Str("report-to-safari"),
                       version |-> Version(rq)])
        st1 == handleReport(st, result, rq.body, 0, cfg)
    IN  IF st1.fault # "none" THEN st1 ELSE sendStatus(st1, 200)

\* a slip: the array is gone through from its end
RECURSIVE ForReports_reversed(_, _, _, _)
ForReports_reversed(st, cfg, rq, i) ==
    IF i > Len(rq.body.items) \/ st.fault # "none" THEN st
    ELSE LET raw == rq.body.items[Len(rq.body.items) + 1 - i]
         IN  IF raw.type \in {"undefined", "null"} THEN Throw(st, "TypeError")
             ELSE LET result ==
                          safeParse([body |-> Get(raw, "body"),
                                     type |-> Get(raw, "type"),
                                     age |-> Get(raw, "age"),
                                     url |-> Get(raw, "url"),
                                     user_agent |-> Get(raw, "user_agent"),
                                     report_format |-> Str("report-to"),
                                     version |-> Version(rq)])
                  IN  ForReports_reversed(
                          handleReport(st, result, raw, Len(rq.body.items) + 1 - i, cfg),
                          cfg, rq, i + 1)

\* for (const raw of req.body), from element i on
RECURSIVE ForReports(_, _, _, _)
ForReports(st, cfg, rq, i) ==
    IF i > Len(rq.body.items) \/ st.fault # "none" THEN st
    ELSE LET raw == rq.body.items[i]
         IN  IF raw.type \in {"undefined", "null"} THEN Throw(st, "TypeError")
             ELSE LET result ==
                          safeParse([body |-> Get(raw, "body"),
                                     type |-> Get(raw, "type"),
                                     age |-> Get(raw, "age"),
                                     url |-> Get(raw, "url"),
                                     user_agent |-> Get(raw, "user_agent"),
                                     report_format |-> Str("report-to"),
                                     version |-> Version(rq)])
                  IN  ForReports(handleReport(st, result, raw, i, cfg), cfg, rq, i + 1)

\* the application/reports+json branches
ReportsJson(st, cfg, rq) ==
    IF rq.body.type \in {"undefined", "null"} THEN Throw(st, "TypeError")
    ELSE IF TypeofObject(Get(rq.body, "body")) THEN SingleReport(st, cfg, rq)
    ELSE IF rq.body.type = "array"
    THEN LET st1 == ForReports(st, cfg, rq, 1)
         IN  IF st1.fault # "none" THEN st1 ELSE sendStatus(st1, 200)
    ELSE sendStatus(st, 200)

\* the handler from the content type on
Dispatch(st, cfg, rq) ==
    IF rq.contentType = Str("application/csp-report") THEN LegacyReport(st, cfg, rq)
    ELSE IF rq.contentType # Str("application/reports+json") THEN sendStatus(st, 400)
    ELSE ReportsJson(st, cfg, rq)

\* the handler on request rq: status, headers, events and fault it leaves
Handler(cfg, rq) ==
    LET st0 == [status |-> 0, headers |-> NoResponse.headers,
                events |-> <<>>, fault |-> "none"]
    IN  IF rq.method # "POST" /\ rq.method # "OPTIONS" THEN MethodNotAllowed(st0)
        ELSE LET st1 == Cors(st0, cfg, rq)
             IN  IF st1.status # 0 THEN st1 ELSE Dispatch(st1, cfg, rq)

\* the request before any request
NoRequest ==
    [method |-> "", origin |-> Undefined, contentType |-> Undefined,
     userAgent |-> Undefined, query |-> [version |-> Undefined, disposition |-> Undefined],
     body |-> Undefined]

\* the configuration of an endpoint that is not mounted
NoEndpoint ==
    [onReport |-> "returns", onValidationError |-> "none",
     ignoreBrowserExtensions |-> Undefined, maxAge |-> Undefined,
     allowedOrigins |-> Undefined]

\* the endpoint has handled nothing
EndpointIdle ==
    /\ req = NoRequest
    /\ endpointRes = NoResponse
    /\ events = <<>>
    /\ fault = "none"

\* there is no second response and the caller keeps no array
NothingShared ==
    /\ callerArray = <<>>
    /\ other = [h \in HeaderNames |-> AbsentSlot]
    /\ otherRuns = 0

(***************************************************************************)
(* Inputs of the model.                                                    *)
(***************************************************************************)
UrlInputs == {"/ep", "/ep?k=v"}

VersionInputs == {Undefined, Str(""), Str("v 1"), Num(0), Num(12)}

GroupInputs == {Undefined, Str(""), Str("csp")}

NelInputs == {Undefined, Bool(TRUE),
              Obj(<< <<"failure_fraction", Frac(5)>>, <<"include_subdomains", Bool(TRUE)>> >>)}

\* every configuration of the model
ConfigInputs ==
    [reportingGroup : GroupInputs,
     enableDefaultReporters : {Undefined, Bool(TRUE)},
     enableNetworkErrorLogging : NelInputs,
     version : VersionInputs]

\* the configurations used where the response is varied instead
FewConfigInputs ==
    [reportingGroup : {Undefined},
     enableDefaultReporters : {Undefined},
     enableNetworkErrorLogging : {Undefined, Bool(TRUE)},
     version : {Undefined}]

\* single values the caller gives to a monitored header
ScalarInputs ==
    {Str("script-src 'self'"), Str(""), Str("b;report-to g"), Num(5), Num(0)}

\* arrays of values the caller gives to a monitored header: the arrays of the
\* repository's tests, and arrays with other kinds of element
ArrayInputs ==
    { <<>>,
      <<Str("script-src 'self'"), Str("img-src 'self'"), Str("frame-src 'self'")>>,
      <<Str("script-src 'self';report-uri /endpoint?src=csp;report-to csp"),
        Str("img-src 'self'"), Str("frame-src 'self'")>>,
      <<Str("c;report-uri /u"), Str("d;report-uri")>>,
      <<Num(5), Str("")>> }

\* values the caller gives to Reporting-Endpoints
EndpointInputs == {Str(""), Str("main=\"/m\"")}

(***************************************************************************)
(* The state machine: the handlers mounted before the middleware set       *)
(* headers on the response, then the middleware runs (it may be mounted    *)
(* more than once).                                                        *)
(***************************************************************************)
InitWith(configs) ==
    /\ config \in configs
    /\ urlArg \in UrlInputs
    /\ reportingUrl = VersionedUrl(urlArg, config)
    /\ res = [h \in HeaderNames |-> AbsentSlot]
    /\ heap = <<>>
    /\ callerCalls = 0
    /\ runs = 0
    /\ pre = [res |-> res, heap |-> heap]
    /\ writes = <<>>
    /\ endpointConfig = NoEndpoint
    /\ EndpointIdle
    /\ NothingShared

Init == InitWith(FewConfigInputs)

InitConfig == InitWith(ConfigInputs)

\* the headers the caller sets, in the order the caller sets them
CallerOrder == headers \o <<"Reporting-Endpoints">>

\* header h is next in the caller's order: neither it nor a later one has been set
NotYetSet(h) ==
    \A i, j \in 1..Len(CallerOrder) :
        (CallerOrder[i] = h /\ j >= i) => res[CallerOrder[j]].kind = "absent"

\* the caller sets a header of the response to a single value
CallerSetHeader ==
    /\ runs = 0
    /\ \E h \in Header \cup {"Reporting-Endpoints"} :
         /\ NotYetSet(h)
         /\ \E v \in (IF h \in Header THEN ScalarInputs ELSE EndpointInputs) :
                res' = [res EXCEPT ![h] = ScalarSlot(v)]
    /\ callerCalls' = callerCalls + 1
    /\ UNCHANGED <<config, urlArg, reportingUrl, heap, runs, pre, writes>>
    /\ UNCHANGED endpointVars
    /\ UNCHANGED sharedVars

\* the caller sets a monitored header of the response to a new array of values
CallerSetHeaderArray ==
    /\ runs = 0
    /\ \E h \in Header : \E a \in ArrayInputs :
         /\ NotYetSet(h)
         /\ heap' = Append(heap, a)
         /\ res' = [res EXCEPT ![h] = ArraySlot(Len(heap) + 1)]
    /\ callerCalls' = callerCalls + 1
    /\ UNCHANGED <<config, urlArg, reportingUrl, runs, pre, writes>>
    /\ UNCHANGED endpointVars
    /\ UNCHANGED sharedVars

\* the middleware runs on the response
Annotate ==
    /\ runs < MaxRuns
    /\ LET st == Middleware(res, heap, config, reportingUrl)
       IN  /\ res' = st.res
           /\ heap' = st.heap
           /\ writes' = st.writes
    /\ pre' = [res |-> res, heap |-> heap]
    /\ runs' = runs + 1
    /\ UNCHANGED <<config, urlArg, reportingUrl, callerCalls>>
    /\ UNCHANGED endpointVars
    /\ UNCHANGED sharedVars

Next ==
    \/ callerCalls < MaxCallerCalls /\ CallerSetHeader
    \/ callerCalls < MaxCallerCalls /\ CallerSetHeaderArray
    \/ Annotate

\* responses of several headers and multi-valued headers, few configurations
Spec == Init /\ [][Next]_vars

NextConfig ==
    \/ callerCalls < MaxConfigCalls /\ CallerSetHeader
    \/ Annotate

\* every configuration, responses of single-valued headers
SpecConfig == InitConfig /\ [][NextConfig]_vars

(***************************************************************************)
(* Two responses and one array of header values: the caller keeps an array *)
(* (a constant of its module) and gives it to res.setHeader on the         *)
(* response of every request; the middleware runs on each response.  The   *)
(* array object is the first of the heap.                                  *)
(***************************************************************************)
InitShared ==
    /\ config \in FewConfigInputs
    /\ urlArg \in UrlInputs
    /\ reportingUrl = VersionedUrl(urlArg, config)
    /\ res = [h \in HeaderNames |-> AbsentSlot]
    /\ callerArray \in ArrayInputs
    /\ heap = <<callerArray>>
    /\ callerCalls = 0
    /\ runs = 0
    /\ pre = [res |-> res, heap |-> heap]
    /\ writes = <<>>
    /\ endpointConfig = NoEndpoint
    /\ EndpointIdle
    /\ other = [h \in HeaderNames |-> AbsentSlot]
    /\ otherRuns = 0

\* the caller sets a monitored header of the first response to its array
SetSharedArray ==
    /\ runs = 0
    /\ \A h \in HeaderNames : res[h].kind = "absent"
    /\ \E h \in Header : res' = [res EXCEPT ![h] = ArraySlot(1)]
    /\ callerCalls' = callerCalls + 1
    /\ UNCHANGED <<config, urlArg, reportingUrl, heap, runs, pre, writes>>
    /\ UNCHANGED endpointVars
    /\ UNCHANGED sharedVars

\* the caller sets a monitored header of the second response to its array
SetSharedArrayOther ==
    /\ otherRuns = 0
    /\ \A h \in HeaderNames : other[h].kind = "absent"
    /\ \E h \in Header : other' = [other EXCEPT ![h] = ArraySlot(1)]
    /\ callerCalls' = callerCalls + 1
    /\ UNCHANGED <<config, urlArg, reportingUrl, res, heap, runs, pre, writes>>
    /\ UNCHANGED endpointVars
    /\ UNCHANGED <<callerArray, otherRuns>>

\* the middleware runs on the second response
AnnotateOther ==
    /\ otherRuns < MaxRuns
    /\ LET st == Middleware(other, heap, config, reportingUrl)
       IN  /\ other' = st.res
           /\ heap' = st.heap
    /\ otherRuns' = otherRuns + 1
    /\ UNCHANGED <<config, urlArg, reportingUrl, res, callerCalls, runs, pre, writes>>
    /\ UNCHANGED endpointVars
    /\ UNCHANGED callerArray

NextShared ==
    \/ SetSharedArray
    \/ SetSharedArrayOther
    \/ Annotate
    \/ AnnotateOther

\* two responses that are given the same array of header values
SpecShared == InitShared /\ [][NextShared]_vars

(***************************************************************************)
(* The ingestion endpoint: its inputs and its state machine.  A request    *)
(* arrives with its body parsed by the host's body parser; the handler     *)
(* runs on it from its first line to its return (or to the exception that  *)
(* leaves it).                                                             *)
(***************************************************************************)
\* bodies of reports, with a sourceFile
CspBody(sourceFile) ==
    Obj(<< <<"blockedURL", Str("inline")>>, <<"disposition", Str("enforce")>>,
           <<"documentURL", Str("https://x/")>>, <<"effectiveDirective", Str("script-src")>>,
           <<"originalPolicy", Str("p")>>, <<"referrer", Str("")>>,
           <<"sourceFile", Str(sourceFile)>> >>)

CoopBody(sourceFile) ==
    Obj(<< <<"disposition", Str("enforce")>>, <<"effectivePolicy", Str("same-origin")>>,
           <<"type", Str("navigate-to-document")>>, <<"property", Str("closed")>>,
           <<"sourceFile", Str(sourceFile)>> >>)

DeprecationBody ==
    Obj(<< <<"id", Str("d")>>, <<"message", Str("m")>>, <<"anticipatedRemoval", Null>> >>)

\* an element of an application/reports+json array
Element(type, body, age) ==
    Obj(<< <<"type", Str(type)>>, <<"body", body>>, <<"age", age>>,
           <<"url", Str("https://x/")>>, <<"user_agent", Str("UA")>> >>)

\* ages that JSON can state besides the counts of milliseconds: a negative
\* number, a number with a decimal (1.5), a text
OddAgeInputs == {Num(-1), Frac(15), Str("10")}

\* an element that states no age
ElementWithoutAge ==
    Obj(<< <<"type", Str("deprecation")>>, <<"body", DeprecationBody>>,
           <<"url", Str("https://x/")>>, <<"user_agent", Str("UA")>> >>)

\* the elements the arrays of the model are made of
ElementInputs ==
    { Element("csp-violation", CspBody("https://x/a.js"), Num(1000)),
      Element("csp-violation", CspBody("chrome-extension://e/a.js"), Num(0)),
      Element("coop", CoopBody("moz-extension://e/a.js"), Num(1001)),
      Element("mystery", Obj(<<>>), Num(0)),
      Null,
      Num(7) }

\* the array bodies: every array of up to MaxBatch elements, and arrays of one
\* report of each age around the maxAge values of the model
BatchInputs ==
    {Arr(items) : items \in UNION {[1..n -> ElementInputs] : n \in 0..MaxBatch}}
    \cup {Arr(<<Element("deprecation", DeprecationBody, Num(age))>>) :
             age \in {0, 1000, 1001, 2000, 2001}}
    \cup {Arr(<<Element("deprecation", DeprecationBody, age)>>) : age \in OddAgeInputs}
    \cup {Arr(<<ElementWithoutAge>>)}

\* the csp-report member of a legacy body
LegacyCsp(sourceFile) ==
    Obj(<< <<"blocked-uri", Str("inline")>>, <<"disposition", Str("enforce")>>,
           <<"document-uri", Str("https://x/")>>, <<"effective-directive", Str("script-src")>>,
           <<"violated-directive", Str("script-src-elem")>>,
           <<"original-policy", Str("p")>>, <<"referrer", Str("")>>,
           <<"source-file", Str(sourceFile)>> >>)

\* one as older Firefox sends it: no disposition, no effective-directive
LegacyCspFirefox ==
    Obj(<< <<"blocked-uri", Str("inline")>>, <<"document-uri", Str("https://x/")>>,
           <<"violated-directive", Str("script-src-elem")>>,
           <<"original-policy", Str("p")>>, <<"referrer", Str("")>> >>)

\* one of a report-only policy
LegacyCspReportOnly ==
    Obj(<< <<"blocked-uri", Str("inline")>>, <<"disposition", Str("report")>>,
           <<"document-uri", Str("https://x/")>>, <<"effective-directive", Str("img-src")>>,
           <<"violated-directive", Str("img-src https:")>>,
           <<"original-policy", Str("p")>>, <<"referrer", Str("")>> >>)

\* one whose disposition and effective-directive are empty texts
LegacyCspEmptyTexts ==
    Obj(<< <<"blocked-uri", Str("inline")>>, <<"disposition", Str("")>>,
           <<"document-uri", Str("https://x/")>>, <<"effective-directive", Str("")>>,
           <<"violated-directive", Str("script-src-elem")>>,
           <<"original-policy", Str("p")>>, <<"referrer", Str("")>> >>)

\* parsed bodies of application/csp-report requests; a request without a body
\* has body {} or no body at all, as the body parser in use leaves it
LegacyBodyInputs ==
    { Undefined, Obj(<<>>), Arr(<<>>),
      Obj(<< <<"csp-report", Null>> >>),
      Obj(<< <<"csp-report", Str("")>> >>),
      Obj(<< <<"csp-report", Str("x")>> >>),
      Obj(<< <<"csp-report", LegacyCsp("https://x/a.js")>> >>),
      Obj(<< <<"csp-report", LegacyCsp("safari-web-extension://e/a.js")>> >>),
      Obj(<< <<"csp-report", LegacyCspFirefox>> >>),
      Obj(<< <<"csp-report", LegacyCspReportOnly>> >>),
      Obj(<< <<"csp-report", LegacyCspEmptyTexts>> >>) }

\* parsed bodies of application/reports+json requests that are not arrays
ObjectBodyInputs ==
    { Undefined, Obj(<<>>),
      Obj(<< <<"body", Str("text")>> >>),
      Obj(<< <<"body", Null>> >>),
      Obj(<< <<"type", Str("csp-violation")>>, <<"url", Str("https://x/")>>,
             <<"body", CspBody("https://x/a.js")>>, <<"age", Num(2001)>> >>),
      Obj(<< <<"type", Str("coop")>>, <<"url", Str("https://x/")>>,
             <<"body", CoopBody("chrome-extension://e/a.js")>> >>),
      Obj(<< <<"type", Str("crash")>>, <<"body", Obj(<<>>)>> >>) }

QueryInputs ==
    { [version |-> Undefined, disposition |-> Undefined],
      [version |-> Str("1"), disposition |-> Str("enforce")] }

OriginInputs ==
    { Undefined, Str(""), Str("https://good.example"), Str("https://a.good.example"),
      Str("https://evil.example") }

\* requests that differ in method and Origin
CorsRequestInputs ==
    { [method |-> m, origin |-> o, contentType |-> p[1], userAgent |-> Str("UA"),
       query |-> [version |-> Undefined, disposition |-> Undefined], body |-> p[2]] :
         m \in {"GET", "DELETE", "POST", "OPTIONS"},
         o \in OriginInputs,
         p \in { <<Undefined, Obj(<<>>)>>,
                 <<Str("application/reports+json"),
                   Arr(<<Element("csp-violation", CspBody("https://x/a.js"), Num(1000))>>)>> } }

\* content type and parsed body of the POSTs of the model
PayloadInputs ==
    ({Str("application/csp-report")} \X LegacyBodyInputs)
    \cup ({Str("application/reports+json")} \X (ObjectBodyInputs \cup BatchInputs))
    \cup ({Undefined, Str("text/plain")} \X {Undefined, Obj(<<>>)})

\* POSTs that differ in content type and body
BodyRequestInputs ==
    { [method |-> "POST", origin |-> o, contentType |-> p[1], userAgent |-> ua,
       query |-> q, body |-> p[2]] :
         o \in {Undefined, Str("https://good.example")},
         p \in PayloadInputs,
         ua \in {Str("UA")},
         q \in {[version |-> Undefined, disposition |-> Undefined]} }
    \cup
    { [method |-> "POST", origin |-> Undefined, contentType |-> p[1], userAgent |-> ua,
       query |-> q, body |-> p[2]] :
         p \in ({Str("application/csp-report")} \X LegacyBodyInputs)
               \cup ({Str("application/reports+json")} \X ObjectBodyInputs),
         ua \in {Undefined, Str("UA")},
         q \in QueryInputs }

RequestInputs == CorsRequestInputs \cup BodyRequestInputs

AllowedOriginsInputs ==
    { Undefined, Str(""), Str("*"), Str("https://good.example"),
      RegExp("https://", ".good.example"),
      Arr(<<Str("https://evil.example"), RegExp("https://", ".good.example")>>),
      Arr(<<>>), Arr(<<Str("*")>>) }

\* configurations that differ in the origins allowed
CorsConfigInputs ==
    [onReport : {"returns"}, onValidationError : {"returns"},
     ignoreBrowserExtensions : {Undefined}, maxAge : {Undefined},
     allowedOrigins : AllowedOriginsInputs]

\* configurations that differ in the callbacks and the filter
FilterConfigInputs ==
    [onReport : {"returns", "throws"},
     onValidationError : {"none", "returns", "throws"},
     ignoreBrowserExtensions : {Undefined, Bool(TRUE)},
     maxAge : {Undefined, Num(0), Num(1), Num(2)},
     allowedOrigins : {Undefined, Str("https://good.example")}]

EndpointConfigInputs == CorsConfigInputs \cup FilterConfigInputs

\* the endpoint is mounted with a configuration; no annotator is in use
InitEndpoint ==
    /\ config = [reportingGroup |-> Undefined, enableDefaultReporters |-> Undefined,
                 enableNetworkErrorLogging |-> Undefined, version |-> Undefined]
    /\ urlArg = "/ep"
    /\ reportingUrl = VersionedUrl(urlArg, config)
    /\ res = [h \in HeaderNames |-> AbsentSlot]
    /\ heap = <<>>
    /\ callerCalls = 0
    /\ runs = 0
    /\ pre = [res |-> res, heap |-> heap]
    /\ writes = <<>>
    /\ endpointConfig \in EndpointConfigInputs
    /\ EndpointIdle
    /\ NothingShared

\* a request arrives and the handler runs on it.  The handler reads nothing
\* that an earlier request left behind, so a behaviour is the handling of one
\* request by an endpoint that has handled none
HandleRequest ==
    /\ req = NoRequest
    /\ \E rq \in RequestInputs :
          LET st == Handler(endpointConfig, rq)
          IN  /\ req' = rq
              /\ endpointRes' = [status |-> st.status, headers |-> st.headers]
              /\ events' = st.events
              /\ fault' = st.fault
    /\ UNCHANGED endpointConfig
    /\ UNCHANGED annotatorVars
    /\ UNCHANGED sharedVars

NextEndpoint == HandleRequest

\* the ingestion endpoint and a request
SpecEndpoint == InitEndpoint /\ [][NextEndpoint]_vars

(***************************************************************************)
(* Vocabulary of the properties.  They speak of the last run of the        *)
(* middleware: pre is the response it found, res the response it left.     *)
(***************************************************************************)
Ran == runs >= 1

\* the response carries header h: res.getHeader(h) gives a value the code takes as set
Carries(r, h) == SlotTruthy(r[h])

\* the last run found no Reporting-Endpoints header and went through the headers
Proceeded == Ran /\ ~Carries(pre.res, "Reporting-Endpoints")

PreList(h) == ValueList(pre.res, pre.heap, h)
PostList(h) == ValueList(res, heap, h)

Wrote(h) == \E k \in 1..Len(writes) : writes[k].field = h

\* value v is a string that contains no reporting directive
Unannotated(v) ==
    /\ v.type = "string"
    /\ ~Includes(v.s, "report-to")
    /\ ~Includes(v.s, "report-uri ")

CspHeaders == {"Content-Security-Policy", "Content-Security-Policy-Report-Only"}
PermissionsHeaders == {"Permissions-Policy", "Permissions-Policy-Report-Only"}
CrossOriginHeaders == Header \ (CspHeaders \cup PermissionsHeaders)

\* every unannotated value of the headers in hs that the last run found has
\* become that value followed by suffix
Rewritten(hs, suffix) ==
    \A h \in hs :
        Carries(pre.res, h) =>
            /\ Len(PostList(h)) = Len(PreList(h))
            /\ \A i \in 1..Len(PreList(h)) :
                  Unannotated(PreList(h)[i]) =>
                      PostList(h)[i] = Str(PreList(h)[i].s \o suffix)

HasReporter(v) ==
    v.type = "string" /\ (Includes(v.s, "report-to") \/ Includes(v.s, "report-uri "))

\* w is v with a text appended that holds a report-to directive
Annotated(v, w) ==
    /\ w.type = "string"
    /\ Len(w.s) > Len(v.s)
    /\ SubSeq(w.s, 1, Len(v.s)) = v.s
    /\ Includes(SubSeq(w.s, Len(v.s) + 1, Len(w.s)), "report-to")

C3_EndpointsCarriedNothingChanges ==
    (Ran /\ Carries(pre.res, "Reporting-Endpoints")) =>
        /\ res = pre.res
        /\ \A ref \in 1..Len(pre.heap) : heap[ref] = pre.heap[ref]
        /\ writes = <<>>

C3_Witness ==
    /\ Ran
    /\ Carries(pre.res, "Reporting-Endpoints")
    /\ Truthy(config.enableNetworkErrorLogging)
    /\ \E h \in Header :
          /\ Carries(pre.res, h)
          /\ \E i \in 1..Len(PreList(h)) : Unannotated(PreList(h)[i])
          /\ PostList(h) = PreList(h)
    /\ res["NEL"].kind = "absent"

(***************************************************************************)
(* C4: when no Reporting-Endpoints header was there before, one is there   *)
(* after the run exactly when a value of a monitored header was modified,  *)
(* and its value is then <group>="<url>".                                  *)
(***************************************************************************)
Modified ==
    \E h \in Header :
        \/ Len(PostList(h)) # Len(PreList(h))
        \/ \E i \in 1..Len(PreList(h)) : PostList(h)[i] # PreList(h)[i]

C4_EndpointsIffModified ==
    (Ran /\ pre.res["Reporting-Endpoints"].kind = "absent") =>
        /\ res["Reporting-Endpoints"].kind # "absent" <=> Modified
        /\ Modified =>
              res["Reporting-Endpoints"]
                = ScalarSlot(Str(ReportTo(config) \o "=\"" \o reportingUrl \o "\""))

\* a modified value in one header, then a header with nothing to modify
C4_Witness ==
    /\ Ran
    /\ pre.res["Reporting-Endpoints"].kind = "absent"
    /\ PreList("Content-Security-Policy") = <<Str("c;report-uri /u"), Str("d;report-uri")>>
    /\ PreList("Permissions-Policy") = <<Str("b;report-to g")>>
    /\ Modified
    /\ res["Reporting-Endpoints"] = ScalarSlot(Str("reporter=\"/ep?k=v\""))

(***************************************************************************)
(* C5: the list written back for a monitored header has the length and the *)
(* order of the list read: position i is the value read at i, unchanged or *)
(* with the reporting directive of that header appended.                   *)
(***************************************************************************)
Directive(h) ==
    IF h \in CspHeaders
    THEN ";report-uri " \o reportingUrl
         \o (IF Includes(reportingUrl, "?") THEN "&" ELSE "?") \o "src=report-uri"
         \o ";report-to " \o ReportTo(config)
    ELSE IF h \in PermissionsHeaders
    THEN ";report-to=" \o ReportTo(config)
    ELSE ";report-to=\"" \o ReportTo(config) \o "\""

C5_LengthAndOrderKept ==
    Ran =>
        \A h \in Header :
            /\ Len(PostList(h)) = Len(PreList(h))
            /\ \A i \in 1..Len(PreList(h)) :
                  \/ PostList(h)[i] = PreList(h)[i]
                  \/ /\ PreList(h)[i].type = "string"
                     /\ PostList(h)[i] = Str(PreList(h)[i].s \o Directive(h))

C5_Witness ==
    /\ Proceeded
    /\ \E h \in Header :
          /\ Wrote(h)
          /\ Len(PreList(h)) = 2
          /\ PostList(h)[1] = PreList(h)[1]
          /\ PostList(h)[2] = Str(PreList(h)[2].s \o Directive(h))

(***************************************************************************)
(* C6: a monitored header that is absent, or that has no string-typed      *)
(* value, is not mutated (it is not written and stays as it was) and does  *)
(* not cause Reporting-Endpoints to be set.                                *)
(***************************************************************************)
NoStringValue(h) == \A i \in 1..Len(PreList(h)) : PreList(h)[i].type # "string"

\* the slot of h and the array it refers to are as the run found them
StaysAsItWas(h) ==
    /\ res[h] = pre.res[h]
    /\ res[h].kind = "array" => heap[res[h].ref] = pre.heap[res[h].ref]

C6_AsClaimed ==
    Ran =>
        /\ \A h \in Header : NoStringValue(h) => (~Wrote(h) /\ StaysAsItWas(h))
        /\ (\A h \in Header : NoStringValue(h))
              => res["Reporting-Endpoints"] = pre.res["Reporting-Endpoints"]

\* C6 as amended: a header that is absent (or whose single value is empty or 0)
\* is not written and stays as it was; a header the run finds with no
\* string-typed value is written back with the same values in the same order,
\* a single value as a list of one; neither causes Reporting-Endpoints to be set
C6_AbsentSkippedOthersWrittenBackUnchanged ==
    Ran =>
        /\ \A h \in Header :
              /\ ~Carries(pre.res, h) => (~Wrote(h) /\ StaysAsItWas(h))
              /\ (Proceeded /\ Carries(pre.res, h) /\ NoStringValue(h))
                    => (Wrote(h) /\ res[h].kind = "array" /\ PostList(h) = PreList(h))
        /\ (\A h \in Header : NoStringValue(h) \/ ~Carries(pre.res, h))
              => res["Reporting-Endpoints"] = pre.res["Reporting-Endpoints"]

C6_Witness ==
    /\ Proceeded
    /\ \E h, g \in Header :
          /\ pre.res[h] = ScalarSlot(Num(5))
          /\ Wrote(h)
          /\ res[h].kind = "array"
          /\ PostList(h) = <<Num(5)>>
          /\ pre.res[g].kind = "absent"
          /\ ~Wrote(g)
          /\ res[g].kind = "absent"
    /\ res["Reporting-Endpoints"].kind = "absent"

(***************************************************************************)
(* C7: an unannotated value v of Permissions-Policy[-Report-Only] becomes  *)
(* v;report-to=<group>, one of the Cross-Origin-Opener/Embedder-Policy     *)
(* headers and their -Report-Only forms becomes v;report-to="<group>"; no  *)
(* report-uri directive is added to these headers.                         *)
(***************************************************************************)
C7_ReportToOnly ==
    Proceeded =>
        /\ Rewritten(PermissionsHeaders, ";report-to=" \o ReportTo(config))
        /\ Rewritten(CrossOriginHeaders, ";report-to=\"" \o ReportTo(config) \o "\"")
        /\ \A h \in PermissionsHeaders \cup CrossOriginHeaders :
              \A i \in 1..Len(PreList(h)) :
                  (PreList(h)[i].type = "string" /\ ~Includes(PreList(h)[i].s, "report-uri"))
                      => ~Includes(PostList(h)[i].s, "report-uri")

C7_Witness ==
    /\ Proceeded
    /\ PreList("Cross-Origin-Embedder-Policy-Report-Only") = <<Str("script-src 'self'")>>
    /\ PostList("Cross-Origin-Embedder-Policy-Report-Only")
          = <<Str("script-src 'self';report-to=\"csp\"")>>

(***************************************************************************)
(* C8: the group in every directive and in Reporting-Endpoints, Report-To  *)
(* and NEL is "default" when enableDefaultReporters is set, even with a    *)
(* reportingGroup configured; otherwise the configured reportingGroup;     *)
(* otherwise "reporter".                                                   *)
(***************************************************************************)
ExpectedGroup ==
    IF config.enableDefaultReporters = Bool(TRUE) THEN "default"
    ELSE IF config.reportingGroup.type = "string" /\ config.reportingGroup.s # ""
    THEN config.reportingGroup.s
    ELSE "reporter"

EndsWith(s, t) == Len(s) >= Len(t) /\ SubSeq(s, Len(s) - Len(t) + 1, Len(s)) = t
StartsWith(s, t) == Len(s) >= Len(t) /\ SubSeq(s, 1, Len(t)) = t

Last(seq) == seq[Len(seq)]

C8_GroupResolution ==
    Proceeded =>
        /\ \A h \in Header : \A i \in 1..Len(PreList(h)) :
              PostList(h)[i] # PreList(h)[i] =>
                  EndsWith(PostList(h)[i].s,
                           IF h \in CspHeaders THEN ";report-to " \o ExpectedGroup
                           ELSE IF h \in PermissionsHeaders THEN ";report-to=" \o ExpectedGroup
                           ELSE ";report-to=\"" \o ExpectedGroup \o "\"")
        /\ Wrote("Reporting-Endpoints") =>
              StartsWith(Last(PostList("Reporting-Endpoints")).s, ExpectedGroup \o "=\"")
        /\ Wrote("Report-To") =>
              StartsWith(Last(PostList("Report-To")).s,
                         "{\"group\":\"" \o ExpectedGroup \o "\",")
        /\ Wrote("NEL") =>
              StartsWith(Last(PostList("NEL")).s,
                         "{\"report_to\":\"" \o ExpectedGroup \o "\",")

C8_Witness ==
    /\ Proceeded
    /\ config.enableDefaultReporters = Bool(TRUE)
    /\ config.reportingGroup = Str("csp")
    /\ PostList("Permissions-Policy") = <<Str("script-src 'self';report-to=default")>>
    /\ Wrote("Reporting-Endpoints")
    /\ Wrote("Report-To")
    /\ StartsWith(Last(PostList("NEL")).s, "{\"report_to\":\"default\",")

(***************************************************************************)
(* C9: with version set the reporting URL used by the middleware is the    *)
(* configured URL with ?version=<version> appended, &version=<version>     *)
(* when the URL already has a query string; without version it is the      *)
(* configured URL.                                                         *)
(***************************************************************************)
VersionSet == Truthy(config.version)

Separator(url) == IF Includes(url, "?") THEN "&" ELSE "?"

\* the Reporting-Endpoints value a run writes when it works with reporting URL url
UsesUrl(url) ==
    (Proceeded /\ Wrote("Reporting-Endpoints")) =>
        res["Reporting-Endpoints"] = ScalarSlot(Str(ExpectedGroup \o "=\"" \o url \o "\""))

C9_AsClaimed ==
    UsesUrl(IF VersionSet
            THEN urlArg \o Separator(urlArg) \o "version=" \o JsString(config.version)
            ELSE urlArg)

\* C9 as amended: what is appended is the version as text, encoded as a URI
\* component; version counts as set when it is a non-empty string or a number
\* other than 0
C9_VersionEncoded ==
    /\ reportingUrl =
          IF VersionSet
          THEN urlArg \o Separator(urlArg) \o "version="
                      \o encodeURIComponent(JsString(config.version))
          ELSE urlArg
    /\ config.version = Str("v 1") => EndsWith(reportingUrl, "version=v%201")
    /\ config.version = Num(12) => EndsWith(reportingUrl, "version=12")
    /\ config.version \in {Undefined, Str(""), Num(0)} => reportingUrl = urlArg
    /\ UsesUrl(IF VersionSet
               THEN urlArg \o Separator(urlArg) \o "version="
                           \o encodeURIComponent(JsString(config.version))
               ELSE urlArg)

C9_Witness ==
    /\ Proceeded
    /\ config.version = Str("v 1")
    /\ urlArg = "/ep?k=v"
    /\ reportingUrl = "/ep?k=v&version=v%201"
    /\ res["Reporting-Endpoints"] = ScalarSlot(Str("reporter=\"/ep?k=v&version=v%201\""))

(***************************************************************************)
(* C10: with enableNetworkErrorLogging enabled and no Reporting-Endpoints  *)
(* header found, the run appends a Report-To header whose JSON names the   *)
(* group and the reporting URL as its one endpoint, and sets NEL with      *)
(* report_to the same group and failure_fraction, success_fraction and     *)
(* include_subdomains copied from the option object; with the option not   *)
(* enabled neither header is written.                                      *)
(***************************************************************************)
NelEnabled ==
    \/ config.enableNetworkErrorLogging = Bool(TRUE)
    \/ config.enableNetworkErrorLogging.type = "object"

\* the JSON text of field k of the option object, empty when it has none
Copied(k) ==
    LET option == config.enableNetworkErrorLogging
        v == Prop(option, k)
    IN  IF option.type # "object" \/ v = Undefined THEN ""
        ELSE ",\"" \o k \o "\":"
             \o (CASE v = Bool(TRUE) -> "true"
                   [] v = Bool(FALSE) -> "false"
                   [] v = Frac(0) -> "0"
                   [] v = Frac(10) -> "1"
                   [] OTHER -> "0." \o Digit(v.n))

ExpectedReportToJson ==
    "{\"group\":\"" \o ExpectedGroup \o "\",\"max_age\":86400,\"endpoints\":[{\"url\":\""
    \o reportingUrl \o "\"}]}"

ExpectedNelJson ==
    "{\"report_to\":\"" \o ExpectedGroup \o "\",\"max_age\":86400"
    \o Copied("failure_fraction") \o Copied("success_fraction")
    \o Copied("include_subdomains") \o "}"

C10_NetworkErrorLogging ==
    Ran =>
        IF Proceeded /\ NelEnabled
        THEN /\ Len(PostList("Report-To")) = Len(PreList("Report-To")) + 1
             /\ \A i \in 1..Len(PreList("Report-To")) :
                   PostList("Report-To")[i] = PreList("Report-To")[i]
             /\ Last(PostList("Report-To")) = Str(ExpectedReportToJson)
             /\ res["NEL"] = ScalarSlot(Str(ExpectedNelJson))
        ELSE /\ ~Wrote("Report-To") /\ res["Report-To"] = pre.res["Report-To"]
             /\ ~Wrote("NEL") /\ res["NEL"] = pre.res["NEL"]

C10_Witness ==
    /\ Proceeded
    /\ config.enableNetworkErrorLogging.type = "object"
    /\ urlArg = "/ep"
    /\ config.version = Undefined
    /\ res["Report-To"] = ScalarSlot(Str(
          "{\"group\":\"csp\",\"max_age\":86400,\"endpoints\":[{\"url\":\"/ep\"}]}"))
    /\ res["NEL"] = ScalarSlot(Str(
          "{\"report_to\":\"csp\",\"max_age\":86400,\"failure_fraction\":0.5,\"include_subdomains\":true}"))

(***************************************************************************)
(* C11: of a Content-Security-Policy header with several values, none of   *)
(* which contains a reporting directive, only the last value is updated;   *)
(* every earlier value is left unchanged.                                  *)
(***************************************************************************)
\* the run went through a Content-Security-Policy header of several values,
\* all of them strings without a reporting directive
SeveralUnannotated ==
    /\ Proceeded
    /\ Len(PreList("Content-Security-Policy")) >= 2
    /\ \A i \in 1..Len(PreList("Content-Security-Policy")) :
          Unannotated(PreList("Content-Security-Policy")[i])

Handled == req # NoRequest

CorsHeaders ==
    {"Access-Control-Allow-Origin", "Vary", "Access-Control-Allow-Headers",
     "Access-Control-Allow-Methods", "Access-Control-Max-Age"}

\* the calls of the callbacks among the events
CallbackKinds == {"onReport", "onValidationError"}

NoCallback == \A k \in 1..Len(events) : events[k].kind \notin CallbackKinds

\* the handler returned after sending the given status
Answered(code) == fault = "none" /\ endpointRes.status = code

PassedMethodCheck == Handled /\ req.method \in {"POST", "OPTIONS"}

(***************************************************************************)
(* C12: a request whose method is neither POST nor OPTIONS is answered 405 *)
(* with Allow: POST, OPTIONS; no callback is invoked and no CORS header is *)
(* set.                                                                    *)
(***************************************************************************)
C12_OtherMethodsRejected ==
    (Handled /\ req.method \notin {"POST", "OPTIONS"}) =>
        /\ Answered(405)
        /\ endpointRes.headers["Allow"] = Str("POST, OPTIONS")
        /\ events = <<>>
        /\ \A h \in CorsHeaders : endpointRes.headers[h] = Undefined

\* a DELETE with a report and an allowed Origin, sent to an endpoint that allows
\* every origin
C12_Witness ==
    /\ Handled
    /\ req.method = "DELETE"
    /\ req.origin = Str("https://good.example")
    /\ req.contentType = Str("application/reports+json")
    /\ endpointConfig.allowedOrigins = Str("*")
    /\ endpointRes.status = 405
    /\ endpointRes.headers["Allow"] = Str("POST, OPTIONS")
    /\ endpointRes.headers["Access-Control-Allow-Origin"] = Undefined

(***************************************************************************)
(* C13: with allowedOrigins configured and not the wildcard, the response  *)
(* to a POST or OPTIONS carries Access-Control-Allow-Origin exactly when   *)
(* the request has an Origin that is equal to a listed string or matched   *)
(* by a listed regular expression; its value is then that Origin, and      *)
(* Vary: Origin is set.  With the wildcard the value is * and Vary is not  *)
(* set.                                                                    *)
(***************************************************************************)
\* allowedOrigins is configured (the code's test: a value that is truthy)
\* and is not the wildcard
NonWildcard ==
    Truthy(endpointConfig.allowedOrigins) /\ endpointConfig.allowedOrigins # Str("*")

\* origin o is equal to the string a or matched by the regular expression a
ListedBy(o, a) ==
    \/ a.type = "string" /\ a.s = o
    \/ a.type = "regexp" /\ RegExpTest(a, o)

\* the request has an Origin header that matches the allow-list
OriginMatches ==
    /\ req.origin.type = "string"
    /\ req.origin.s # ""
    /\ LET allowed == endpointConfig.allowedOrigins
       IN  IF allowed.type = "array"
           THEN \E i \in 1..Len(allowed.items) : ListedBy(req.origin.s, allowed.items[i])
           ELSE ListedBy(req.origin.s, allowed)

C13_AllowOriginIffListed ==
    PassedMethodCheck =>
        /\ NonWildcard =>
              /\ endpointRes.headers["Access-Control-Allow-Origin"] # Undefined
                    <=> OriginMatches
              /\ OriginMatches =>
                    /\ endpointRes.headers["Access-Control-Allow-Origin"] = req.origin
                    /\ endpointRes.headers["Vary"] = Str("Origin")
        /\ endpointConfig.allowedOrigins = Str("*") =>
              /\ endpointRes.headers["Access-Control-Allow-Origin"] = Str("*")
              /\ endpointRes.headers["Vary"] = Undefined

\* an Origin matched by the regular expression of a list
C13_Witness ==
    /\ PassedMethodCheck
    /\ endpointConfig.allowedOrigins
          = Arr(<<Str("https://evil.example"), RegExp("https://", ".good.example")>>)
    /\ req.origin = Str("https://a.good.example")
    /\ endpointRes.headers["Access-Control-Allow-Origin"] = Str("https://a.good.example")
    /\ endpointRes.headers["Vary"] = Str("Origin")

(***************************************************************************)
(* C14: every OPTIONS request is answered 200 with                         *)
(* Access-Control-Allow-Headers: Content-Type,                             *)
(* Access-Control-Allow-Methods: POST and Access-Control-Max-Age: 7200,    *)
(* and the handling stops there: no content-type dispatch, no              *)
(* normalization, no callback.                                             *)
(***************************************************************************)
C14_AsClaimed ==
    (Handled /\ req.method = "OPTIONS") =>
        /\ Answered(200)
        /\ endpointRes.headers["Access-Control-Allow-Headers"] = Str("Content-Type")
        /\ endpointRes.headers["Access-Control-Allow-Methods"] = Str("POST")
        /\ endpointRes.headers["Access-Control-Max-Age"] = Str("7200")
        /\ events = <<>>

(***************************************************************************)
(* C15: a POST of content type application/csp-report whose body has no    *)
(* nested csp-report object, and a POST of a content type that is neither  *)
(* application/csp-report nor application/reports+json, is answered 400    *)
(* and invokes neither onReport nor onValidationError.                     *)
(***************************************************************************)
NestedCspReport ==
    req.body.type = "object" /\ Get(req.body, "csp-report").type = "object"

C15_AsClaimed ==
    (/\ Handled
     /\ req.method = "POST"
     /\ \/ req.contentType = Str("application/csp-report") /\ ~NestedCspReport
        \/ req.contentType \notin {Str("application/csp-report"),
                                   Str("application/reports+json")})
        => (Answered(400) /\ NoCallback)

(***************************************************************************)
(* C16: in an application/reports+json array, an element that fails        *)
(* validation is given to onValidationError (when that callback is         *)
(* configured) as the raw element, and every other element of the array is *)
(* still normalized: a valid one is delivered to onReport unless the       *)
(* filter drops it.  A failing element never aborts the batch.             *)
(***************************************************************************)
ArrayBody ==
    /\ Handled
    /\ req.method = "POST"
    /\ req.contentType = Str("application/reports+json")
    /\ req.body.type = "array"

\* element raw of an array body is a valid report
ValidElement(raw) ==
    safeParse([body |-> Get(raw, "body"), type |-> Get(raw, "type"),
               age |-> Get(raw, "age"), url |-> Get(raw, "url"),
               user_agent |-> Get(raw, "user_agent"),
               report_format |-> Str("report-to"), version |-> Version(req)]).success

\* the handling has an event of one of the kinds for element i
EventFor(i, kinds) ==
    \E k \in 1..Len(events) : events[k].index = i /\ events[k].kind \in kinds

C16_AsClaimed ==
    ArrayBody =>
        \A i \in 1..Len(req.body.items) :
            IF ValidElement(req.body.items[i])
            THEN EventFor(i, {"onReport", "filtered"})
            ELSE /\ EventFor(i, {"onValidationError", "parse error"})
                 /\ endpointConfig.onValidationError # "none" =>
                       \E k \in 1..Len(events) :
                           /\ events[k].kind = "onValidationError"
                           /\ events[k].index = i
                           /\ events[k].raw = req.body.items[i]

(***************************************************************************)
(* C17: whatever the method, the content type and the parsed body, and     *)
(* whatever the callbacks do, the handling of a request ends with an HTTP  *)
(* response sent by the handler, never with an exception that leaves it.   *)
(***************************************************************************)
C17_AsClaimed ==
    Handled => (fault = "none" /\ endpointRes.status # 0)

(***************************************************************************)
(* C18: with ignoreBrowserExtensions configured, a validated report is     *)
(* dropped by the extension rule exactly when it is a CSP violation whose  *)
(* sourceFile starts with chrome-extension, moz-extension or               *)
(* safari-web-extension; a report of another type, and any report when the *)
(* option is not configured, is not dropped by this rule.                  *)
(***************************************************************************)
\* the age rule applies to the report
TooOld(report) ==
    /\ Truthy(endpointConfig.maxAge)
    /\ Tenths(report.age) > Tenths(endpointConfig.maxAge) * 1000

\* the sourceFile of the report is of a browser extension
FromExtension(report) ==
    LET sourceFile == Get(report.body, "sourceFile")
    IN  /\ sourceFile.type = "string"
        /\ \/ startsWith(sourceFile.s, "chrome-extension")
           \/ startsWith(sourceFile.s, "moz-extension")
           \/ startsWith(sourceFile.s, "safari-web-extension")

\* the events of the reports that passed validation
Validated(k) == events[k].kind \in {"onReport", "filtered"}

C18_AsClaimed ==
    Handled =>
        \A k \in 1..Len(events) :
            (Validated(k) /\ ~TooOld(events[k].report)) =>
                (events[k].kind = "filtered"
                    <=> /\ Truthy(endpointConfig.ignoreBrowserExtensions)
                        /\ events[k].report.type = Str("csp-violation")
                        /\ FromExtension(events[k].report))

(***************************************************************************)
(* C19: with maxAge configured, a validated report is dropped by the age   *)
(* rule exactly when its age in milliseconds is above maxAge * 1000: a     *)
(* report of age maxAge * 1000 + 1 is not delivered to onReport, one of    *)
(* age maxAge * 1000 is.                                                   *)
(***************************************************************************)
\* the extension rule, which comes first, drops the report
DroppedAsExtension(report) ==
    Truthy(endpointConfig.ignoreBrowserExtensions) /\ FromExtension(report)

C20_DeliveredInArrayOrder ==
    ArrayBody =>
        /\ \A k, l \in 1..Len(events) :
              (k < l /\ events[k].kind = "onReport" /\ events[l].kind = "onReport")
                  => events[k].index < events[l].index
        /\ \A k \in 1..Len(events) :
              events[k].kind = "onReport" =>
                  /\ events[k].index \in 1..Len(req.body.items)
                  /\ events[k].raw = req.body.items[events[k].index]
                  /\ events[k].report.age = Get(events[k].raw, "age")
                  /\ events[k].report.type = Get(events[k].raw, "type")

\* two different reports of one array, both delivered, the first one first
C20_Witness ==
    /\ ArrayBody
    /\ fault = "none"
    /\ Len(events) = 2
    /\ events[1].kind = "onReport" /\ events[1].index = 1
    /\ events[2].kind = "onReport" /\ events[2].index = 2
    /\ events[1].report.type = Str("csp-violation")
    /\ events[2].report.type = Str("coop")

(***************************************************************************)
(* C21: for an application/reports+json array body, every element that     *)
(* validates and passes the filter triggers exactly one onReport call,     *)
(* which carries the age, url and user_agent of that element and           *)
(* report_format report-to; so an array of one valid csp-violation         *)
(* triggers exactly one onReport call.                                     *)
(***************************************************************************)
\* what the schema makes of element raw of the array body handled
ParsedElement(raw) ==
    safeParse([body |-> Get(raw, "body"), type |-> Get(raw, "type"),
               age |-> Get(raw, "age"), url |-> Get(raw, "url"),
               user_agent |-> Get(raw, "user_agent"),
               report_format |-> Str("report-to"), version |-> Version(req)])

\* element raw validates and the filter keeps it
Deliverable(raw) ==
    ParsedElement(raw).success /\ filterReport(ParsedElement(raw).data, endpointConfig)

\* the calls of onReport for element i
OnReportCalls(i) ==
    {k \in 1..Len(events) : events[k].kind = "onReport" /\ events[k].index = i}

C21_AsClaimed ==
    ArrayBody =>
        \A i \in 1..Len(req.body.items) :
            Deliverable(req.body.items[i]) =>
                /\ Cardinality(OnReportCalls(i)) = 1
                /\ \A k \in OnReportCalls(i) :
                      /\ events[k].report.age = Get(req.body.items[i], "age")
                      /\ events[k].report.url = Get(req.body.items[i], "url")
                      /\ events[k].report.user_agent = Get(req.body.items[i], "user_agent")
                      /\ events[k].report.report_format = Str("report-to")

(***************************************************************************)
(* C22: the report_format and the age of a report delivered to onReport    *)
(* are fixed by the wire format that carried it: report-uri and age 0 for  *)
(* a legacy application/csp-report payload, report-to-safari and age 0     *)
(* (whatever age the payload states) for a payload of one report,          *)
(* report-to and the age of the element for an array element.  In all      *)
(* three the type, the url and the body of the report match the input.     *)
(***************************************************************************)
LegacyBody == Handled /\ req.contentType = Str("application/csp-report")

SingleBody ==
    /\ Handled
    /\ req.contentType = Str("application/reports+json")
    /\ req.body.type = "object"

\* the body delivered matches the body received: it has the value received
\* for every key the schema of the type names, and no property that was not
\* received
BodyMatches(delivered, received, type) ==
    /\ \A i \in 1..Len(BodySchema(type).shape) :
          Get(delivered, BodySchema(type).shape[i].key)
              = Get(received, BodySchema(type).shape[i].key)
    /\ \A j \in 1..Len(delivered.props) :
          /\ HasKey(delivered.props[j][1], received)
          /\ Get(received, delivered.props[j][1]) = delivered.props[j][2]

\* the canonical names and the legacy names of the fields that are copied
LegacyNames ==
    { <<"blockedURL", "blocked-uri">>, <<"columnNumber", "column-number">>,
      <<"documentURL", "document-uri">>, <<"lineNumber", "line-number">>,
      <<"originalPolicy", "original-policy">>, <<"referrer", "referrer">>,
      <<"sample", "script-sample">>, <<"sourceFile", "source-file">>,
      <<"statusCode", "status-code">> }

Present(v) == Truthy(v)

C23_LegacyFallbacks ==
    LegacyBody =>
        \A k \in 1..Len(events) :
            Validated(k) =>
                LET payload == Get(req.body, "csp-report")
                    body == events[k].report.body
                IN  /\ Get(body, "effectiveDirective")
                          = IF Present(Get(payload, "effective-directive"))
                            THEN Get(payload, "effective-directive")
                            ELSE Get(payload, "violated-directive")
                    /\ Get(body, "disposition")
                          = IF Present(Get(payload, "disposition"))
                            THEN Get(payload, "disposition")
                            ELSE req.query.disposition

\* a payload with both directives and the disposition report, posted to a URL
\* whose query says enforce
C23_Witness ==
    /\ LegacyBody
    /\ Get(Get(req.body, "csp-report"), "effective-directive") = Str("img-src")
    /\ Get(Get(req.body, "csp-report"), "violated-directive") = Str("img-src https:")
    /\ Get(Get(req.body, "csp-report"), "disposition") = Str("report")
    /\ req.query.disposition = Str("enforce")
    /\ Len(events) = 1
    /\ events[1].kind = "onReport"
    /\ Get(events[1].report.body, "effectiveDirective") = Str("img-src")
    /\ Get(events[1].report.body, "disposition") = Str("report")

(***************************************************************************)
(* C24: for each of the eight report types, the properties of the inbound  *)
(* body that the schema of the type does not name are kept unchanged in    *)
(* the body of the report delivered to onReport, and they never make the   *)
(* validation fail.                                                        *)
(***************************************************************************)
\* the body received with the report of event k
ReceivedBody(k) == Get(events[k].raw, "body")

\* body without the properties the schema of the type does not name
NamedOnly(body, type) == Parsed(body, [BodySchema(type) EXCEPT !.passthrough = FALSE])

\* element raw with its body reduced to the properties the schema names
WithNamedOnly(raw) ==
    Obj(<< <<"type", Get(raw, "type")>>,
           <<"body", NamedOnly(Get(raw, "body"), Get(raw, "type").s)>>,
           <<"age", Get(raw, "age")>>, <<"url", Get(raw, "url")>>,
           <<"user_agent", Get(raw, "user_agent")>> >>)

C24_AsClaimed ==
    /\ (ArrayBody \/ SingleBody) =>
          \A k \in 1..Len(events) :
              events[k].kind = "onReport" =>
                  \A j \in 1..Len(ReceivedBody(k).props) :
                      /\ HasKey(ReceivedBody(k).props[j][1], events[k].report.body)
                      /\ Get(events[k].report.body, ReceivedBody(k).props[j][1])
                            = ReceivedBody(k).props[j][2]
    /\ ArrayBody =>
          \A i \in 1..Len(req.body.items) :
              LET raw == req.body.items[i]
              IN  (/\ Get(raw, "type").type = "string"
                   /\ Get(raw, "type").s \in ReportTypes
                   /\ Get(raw, "body").type = "object"
                   /\ ParsedElement(WithNamedOnly(raw)).success)
                      => ParsedElement(raw).success

(***************************************************************************)
(* C25: every report delivered to onReport has an age that is a            *)
(* non-negative integer; an array element whose age is negative, has a     *)
(* fraction or is missing never reaches onReport.                          *)
(***************************************************************************)
NonNegativeInteger(v) == v.type = "number" /\ v.n >= 0

C25_AsClaimed ==
    Handled =>
        /\ \A k \in 1..Len(events) :
              events[k].kind = "onReport" => NonNegativeInteger(events[k].report.age)
        /\ ArrayBody =>
              \A i \in 1..Len(req.body.items) :
                  ~NonNegativeInteger(Get(req.body.items[i], "age"))
                      => OnReportCalls(i) = {}

(***************************************************************************)
(* C26: a POST of content type application/reports+json whose parsed body  *)
(* is neither an array nor an object with a nested body object (an empty   *)
(* object, an object whose body is a text) is not dropped silently: it is  *)
(* given to onValidationError or answered 400, never answered 200 without  *)
(* a callback.                                                             *)
(***************************************************************************)
\* the body of the application/reports+json POST handled has neither shape
NeitherArrayNorReport ==
    /\ Handled
    /\ req.method = "POST"
    /\ req.contentType = Str("application/reports+json")
    /\ req.body.type # "array"
    /\ ~(req.body.type = "object" /\ Get(req.body, "body").type = "object")

C26_AsClaimed ==
    NeitherArrayNorReport =>
        /\ \/ \E k \in 1..Len(events) : events[k].kind = "onValidationError"
           \/ Answered(400)
        /\ ~(Answered(200) /\ NoCallback)

(***************************************************************************)
(* C27: for every POST that reaches the processing of reports (the legacy  *)
(* branch, the branch of one report or the array branch), the status is    *)
(* sent once, it is 200 whether the reports were delivered, filtered or    *)
(* failed validation, and it is sent after every call of onReport and of   *)
(* onValidationError for the request.                                      *)
(***************************************************************************)
\* the POST handled reached one of the three branches that process reports
ReachedProcessing ==
    /\ Handled
    /\ req.method = "POST"
    /\ \/ LegacyBody /\ NestedCspReport
       \/ SingleBody /\ TypeofObject(Get(req.body, "body"))
       \/ ArrayBody

\* the reports of the request: every one of them leaves one event, the call
\* of a callback or the line of the log that stands for it
ReportsOfRequest == IF ArrayBody THEN Len(req.body.items) ELSE 1

C27_AsClaimed ==
    ReachedProcessing =>
        /\ Answered(200)
        /\ Len(events) = ReportsOfRequest

(***************************************************************************)
(* C30: the origin allow-list affects the response headers only: two POSTs *)
(* that differ in nothing but their Origin header, one allowed and the     *)
(* other not allowed or without Origin, cause the same sequence of         *)
(* onReport and onValidationError calls and the same status code.          *)
(***************************************************************************)
\* what the handler does with the request handled had it another Origin
WithOrigin(o) == Handler(endpointConfig, [req EXCEPT !.origin = o])

C30_OriginAffectsHeadersOnly ==
    (Handled /\ req.method = "POST") =>
        \A o \in OriginInputs :
            /\ WithOrigin(o).events = events
            /\ WithOrigin(o).status = endpointRes.status
            /\ WithOrigin(o).fault = fault

\* a report posted without Origin to an endpoint that allows one origin is
\* delivered; posted from that origin it gets other headers
C30_Witness ==
    /\ Handled
    /\ req.method = "POST"
    /\ req.origin = Undefined
    /\ endpointConfig.allowedOrigins = Str("https://good.example")
    /\ Answered(200)
    /\ Len(events) = 1
    /\ events[1].kind = "onReport"
    /\ endpointRes.headers["Access-Control-Allow-Origin"] = Undefined
    /\ WithOrigin(Str("https://good.example")).headers["Access-Control-Allow-Origin"]
          = Str("https://good.example")

(***************************************************************************)
(* C29: running the middleware twice on a response leaves the header set   *)
(* that running it once leaves, for every configuration and every header   *)
(* set the caller made: the second run adds or changes no value of a       *)
(* policy header, of Reporting-Endpoints, of Report-To or of NEL.          *)
(***************************************************************************)
\* the values of every header of response r, in order
HeaderSet(r, hp) == [h \in HeaderNames |-> ValueList(r, hp, h)]

C29_AsClaimed ==
    runs >= 2 => HeaderSet(res, heap) = HeaderSet(pre.res, pre.heap)

(***************************************************************************)
(* C28: the middleware does not change the array of header values the      *)
(* caller supplied: when the same array is set on two responses, one after *)
(* the other or interleaved, and the middleware has run on each, the       *)
(* caller's array is as the caller made it, both responses have the same   *)
(* annotated values of the policy header, and both carry a                 *)
(* Reporting-Endpoints header.                                             *)
(***************************************************************************)
\* header h of both responses was set to the caller's array, and the
\* middleware has run on each response
SharedAndAnnotated(h) ==
    /\ res[h] = ArraySlot(1)
    /\ other[h] = ArraySlot(1)
    /\ runs >= 1
    /\ otherRuns >= 1

\* the caller's array has a value for the middleware to annotate
HasUnannotated == \E i \in 1..Len(callerArray) : Unannotated(callerArray[i])

C28_AsClaimed ==
    \A h \in Header :
        (SharedAndAnnotated(h) /\ HasUnannotated) =>
            /\ heap[1] = callerArray
            /\ ValueList(res, heap, h) = ValueList(other, heap, h)
            /\ \A i \in 1..Len(ValueList(res, heap, h)) :
                  ~Unannotated(ValueList(res, heap, h)[i])
            /\ Carries(res, "Reporting-Endpoints")
            /\ Carries(other, "Reporting-Endpoints")

====
